---- MODULE Spec2Model ----
(***************************************************************************)
(* A model of redis-hexastore (src/src/index.ts): triples indexed under    *)
(* six permuted keys in one Redis sorted set whose members all have score  *)
(* 0, so that the set is ordered by the bytes of its members.              *)
(*                                                                         *)
(* Strings are sequences of character codes and are compared code by code, *)
(* as Redis compares members.  "\0" is 0, "\xff" is 255, "(" is 40, "[" is *)
(* 91, "o" "p" "s" are 111 112 115 and the letters of the values are 97..  *)
(***************************************************************************)
EXTENDS Integers, Sequences, FiniteSets, TLC

VARIABLES
  store,  \* the sorted set: its members in ascending order, each once
  op,     \* the call the caller awaits, with its arguments, or Idle
  ret,    \* what that call returned (or the error it threw)
  saved   \* history: the triples passed to save and batchSave so far

vars == <<store, op, ret, saved>>

----------------------------------------------------------------------------
(* Strings *)

SEPARATOR == <<0, 0>>
SENTINEL == <<255>>
DEFAULT_PAGE_SIZE == 100

\* JavaScript's undefined, for a string-valued or triple-valued slot.
Undefined == <<-1>>
\* JavaScript's undefined, for a number-valued slot (first, last).
NoNumber == -1

spo == <<115, 112, 111>>
sop == <<115, 111, 112>>
pos == <<112, 111, 115>>
osp == <<111, 115, 112>>
pso == <<112, 115, 111>>
ops == <<111, 112, 115>>

\* a && b on strings: undefined and "" are falsy.
Truthy(x) == x # Undefined /\ x # <<>>

RECURSIVE LexLTFrom(_, _, _)
LexLTFrom(a, b, i) ==
  IF i > Len(b) THEN FALSE
  ELSE IF i > Len(a) THEN TRUE
  ELSE IF a[i] < b[i] THEN TRUE
  ELSE IF a[i] > b[i] THEN FALSE
  ELSE LexLTFrom(a, b, i + 1)

\* a sorts strictly before b (memcmp order, the shorter first on a tie).
LexLT(a, b) == LexLTFrom(a, b, 1)

RECURSIVE JoinFrom(_, _, _)
JoinFrom(segs, sep, i) ==
  IF i > Len(segs) THEN <<>>
  ELSE IF i = Len(segs) THEN segs[i]
  ELSE segs[i] \o sep \o JoinFrom(segs, sep, i + 1)

\* Array.prototype.join
Join(segs, sep) == JoinFrom(segs, sep, 1)

RECURSIVE SplitFrom(_, _, _)
SplitFrom(s, i, cur) ==
  IF i > Len(s) THEN <<cur>>
  ELSE IF i < Len(s) /\ s[i] = SEPARATOR[1] /\ s[i + 1] = SEPARATOR[2]
       THEN <<cur>> \o SplitFrom(s, i + 2, <<>>)
       ELSE SplitFrom(s, i + 1, Append(cur, s[i]))

\* String.prototype.split(SEPARATOR): cuts at each leftmost occurrence.
Split(s) == SplitFrom(s, 1, <<>>)

Reverse(s) == [i \in 1..Len(s) |-> s[Len(s) + 1 - i]]

Take(s, n) == SubSeq(s, 1, IF n < Len(s) THEN n ELSE Len(s))

----------------------------------------------------------------------------
(* The sorted set (Redis commands the Hexastore issues) *)

Members(S) == {S[i] : i \in DOMAIN S}

\* ZADD key 0 member: adds the member unless it is there already.
ZAdd(S, m) ==
  IF m \in Members(S)
    THEN S
    ELSE LET n == Cardinality({i \in DOMAIN S : LexLT(S[i], m)})
         IN  SubSeq(S, 1, n) \o <<m>> \o SubSeq(S, n + 1, Len(S))

\* ZREM key member
ZRem(S, m) == SelectSeq(S, LAMBDA x : x # m)

\* A lexicographic bound: "[" + s is inclusive, "(" + s exclusive.
AboveMin(m, min) ==
  IF Head(min) = 91 THEN ~LexLT(m, Tail(min)) ELSE LexLT(Tail(min), m)

BelowMax(m, max) ==
  IF Head(max) = 91 THEN ~LexLT(Tail(max), m) ELSE LexLT(m, Tail(max))

InLexRange(m, min, max) == AboveMin(m, min) /\ BelowMax(m, max)

\* ZREMRANGEBYLEX key min max
ZRemRangeByLex(S, min, max) ==
  SelectSeq(S, LAMBDA x : ~InLexRange(x, min, max))

\* ZRANGEBYLEX key min max LIMIT 0 count
ZRangeByLex(S, min, max, limit) ==
  Take(SelectSeq(S, LAMBDA x : InLexRange(x, min, max)), limit)

\* ZREVRANGEBYLEX key max min LIMIT 0 count
ZRevRangeByLex(S, max, min, limit) ==
  Take(Reverse(SelectSeq(S, LAMBDA x : InLexRange(x, min, max))), limit)

\* ZLEXCOUNT key min max
ZLexCount(S, min, max) ==
  Len(SelectSeq(S, LAMBDA x : InLexRange(x, min, max)))

\* ZSCORE key member: the score (0), or null (FALSE here) for no member.
ZScoreExists(S, m) == m \in Members(S)

----------------------------------------------------------------------------
(* Encoder and RangePlanner *)

Triple(s, p, o) == [subject |-> s, predicate |-> p, object |-> o]

getHashFromSegments(segs) == Join(segs, SEPARATOR)

\* getHashes with the segments of the sop key left in the order s, p, o.
getHashesSopUnpermuted(triple) ==
  LET subject == triple.subject
      object == triple.object
      predicate == triple.predicate
      hex == << <<spo, subject, predicate, object>>,
                <<sop, subject, predicate, object>>,
                <<pos, predicate, object, subject>>,
                <<osp, object, subject, predicate>>,
                <<pso, predicate, subject, object>>,
                <<ops, object, predicate, subject>> >>
  IN  [i \in 1..6 |-> Join(hex[i], SEPARATOR)]

\* Index values for a triple: the six keys, in the order of the array.
getHashes(triple) ==
  LET subject == triple.subject
      object == triple.object
      predicate == triple.predicate
      hex == << <<spo, subject, predicate, object>>,
                <<sop, subject, object, predicate>>,
                <<pos, predicate, object, subject>>,
                <<osp, object, subject, predicate>>,
                <<pso, predicate, subject, object>>,
                <<ops, object, predicate, subject>> >>
  IN  [i \in 1..6 |-> Join(hex[i], SEPARATOR)]

\* getHashRangeSegments with pso for a predicate alone.
getHashRangeSegmentsPso(triple) ==
  LET subject == triple.subject
      object == triple.object
      predicate == triple.predicate
  IN  IF Truthy(subject) /\ Truthy(predicate) THEN <<spo, subject, predicate>>
      ELSE IF Truthy(subject) /\ Truthy(object) THEN <<osp, object, subject>>
      ELSE IF Truthy(predicate) /\ Truthy(object) THEN <<pos, predicate, object>>
      ELSE IF Truthy(subject) THEN <<spo, subject>>
      ELSE IF Truthy(predicate) THEN <<pso, predicate>>
      ELSE IF Truthy(object) THEN <<osp, object>>
      ELSE <<>>

\* The segments getHashRange pushes for a partial triple.
getHashRangeSegments(triple) ==
  LET subject == triple.subject
      object == triple.object
      predicate == triple.predicate
  IN  IF Truthy(subject) /\ Truthy(predicate) THEN <<spo, subject, predicate>>
      ELSE IF Truthy(subject) /\ Truthy(object) THEN <<osp, object, subject>>
      ELSE IF Truthy(predicate) /\ Truthy(object) THEN <<pos, predicate, object>>
      ELSE IF Truthy(subject) THEN <<spo, subject>>
      ELSE IF Truthy(predicate) THEN <<pos, predicate>>
      ELSE IF Truthy(object) THEN <<osp, object>>
      ELSE <<>>

\* getHashRange with the predicate and object of the exact key swapped.
getHashRangeSwapped(triple) ==
  IF Truthy(triple.subject) /\ Truthy(triple.predicate) /\ Truthy(triple.object)
    THEN << getHashFromSegments(
              <<spo, triple.subject, triple.object, triple.predicate>>),
            Undefined >>
    ELSE LET segments == getHashRangeSegments(triple)
         IN  << <<91>> \o getHashFromSegments(segments),
                <<91>> \o getHashFromSegments(Append(segments, SENTINEL)) >>

\* <<start, end>>; end is Undefined for a full triple (one exact key).
getHashRange(triple) ==
  IF Truthy(triple.subject) /\ Truthy(triple.predicate) /\ Truthy(triple.object)
    THEN << getHashFromSegments(
              <<spo, triple.subject, triple.predicate, triple.object>>),
            Undefined >>
    ELSE LET segments == getHashRangeSegments(triple)
         IN  << <<91>> \o getHashFromSegments(segments),
                <<91>> \o getHashFromSegments(Append(segments, SENTINEL)) >>

\* A filter statement: the bounded field, its [min, max] and the other
\* fields of the partial triple (Undefined when not given).
Filter(field, min, max, s, p, o) ==
  [field |-> field, min |-> min, max |-> max,
   subject |-> s, predicate |-> p, object |-> o]

\* getRangeCapsFromFilter with a missing max replaced by "" as well.
getRangeCapsBothEmpty(filter) ==
  << IF filter.min = Undefined THEN <<>> ELSE filter.min,
     IF filter.max = Undefined THEN <<>> ELSE filter.max >>

\* min ?? "" and max ?? "\xff"
getRangeCapsFromFilter(filter) ==
  << IF filter.min = Undefined THEN <<>> ELSE filter.min,
     IF filter.max = Undefined THEN SENTINEL ELSE filter.max >>

FilterBounds(start, end) ==
  << <<91>> \o getHashFromSegments(start), <<91>> \o getHashFromSegments(end) >>

getSubjectFilterRange(filter) ==
  LET predicate == filter.predicate
      object == filter.object
      min == getRangeCapsFromFilter(filter)[1]
      max == getRangeCapsFromFilter(filter)[2]
  IN  IF Truthy(predicate) /\ Truthy(object)
        THEN FilterBounds(<<pos, predicate, object, min>>,
                          <<pos, predicate, object, max>>)
      ELSE IF Truthy(predicate)
        THEN FilterBounds(<<pso, predicate, min>>, <<pso, predicate, max>>)
      ELSE IF Truthy(object)
        THEN FilterBounds(<<osp, object, min>>, <<osp, object, max>>)
      ELSE FilterBounds(<<spo, min>>, <<spo, max>>)

getObjectFilterRange(filter) ==
  LET predicate == filter.predicate
      subject == filter.subject
      min == getRangeCapsFromFilter(filter)[1]
      max == getRangeCapsFromFilter(filter)[2]
  IN  IF Truthy(subject) /\ Truthy(predicate)
        THEN FilterBounds(<<spo, subject, predicate, min>>,
                          <<osp, subject, predicate, max>>)
      ELSE IF Truthy(subject)
        THEN FilterBounds(<<spo, subject, min>>, <<spo, subject, max>>)
      ELSE IF Truthy(predicate)
        THEN FilterBounds(<<pos, predicate, min>>, <<pos, predicate, max>>)
      ELSE FilterBounds(<<osp, min>>, <<osp, max>>)

getPredicateFilterRange(filter) ==
  LET object == filter.object
      subject == filter.subject
      min == getRangeCapsFromFilter(filter)[1]
      max == getRangeCapsFromFilter(filter)[2]
  IN  IF Truthy(subject) /\ Truthy(object)
        THEN FilterBounds(<<osp, object, subject, min>>,
                          <<osp, object, subject, max>>)
      ELSE IF Truthy(subject)
        THEN FilterBounds(<<spo, subject, min>>, <<spo, subject, max>>)
      ELSE IF Truthy(object)
        THEN FilterBounds(<<ops, object, min>>, <<ops, object, max>>)
      ELSE FilterBounds(<<pos, min>>, <<pos, max>>)

\* <<start, end>> for a filter, or Undefined when the call throws (both
\* bounds missing, or an unknown field).
getHashFilterRange(filter) ==
  IF filter.min = Undefined /\ filter.max = Undefined THEN Undefined
  ELSE IF filter.field = "subject" THEN getSubjectFilterRange(filter)
  ELSE IF filter.field = "predicate" THEN getPredicateFilterRange(filter)
  ELSE IF filter.field = "object" THEN getObjectFilterRange(filter)
  ELSE Undefined

----------------------------------------------------------------------------
(* Pipelines: commands staged in order, executed by flush *)

ZAddCmd(m) == [cmd |-> "zadd", member |-> m]
ZRemCmd(m) == [cmd |-> "zrem", member |-> m]
ZRemRangeCmd(min, max) == [cmd |-> "zremrangebylex", min |-> min, max |-> max]

\* One command on the set: the set after it and its integer reply.
Exec(S, c) ==
  LET after == CASE c.cmd = "zadd" -> ZAdd(S, c.member)
                 [] c.cmd = "zrem" -> ZRem(S, c.member)
                 [] OTHER -> ZRemRangeByLex(S, c.min, c.max)
  IN  [store |-> after,
       reply |-> IF c.cmd = "zadd" THEN Len(after) - Len(S)
                                   ELSE Len(S) - Len(after)]

RECURSIVE FlushFrom(_, _, _, _)
FlushFrom(S, pipeline, i, replies) ==
  IF i > Len(pipeline) THEN [store |-> S, replies |-> replies]
  ELSE LET r == Exec(S, pipeline[i])
       IN  FlushFrom(r.store, pipeline, i + 1, Append(replies, r.reply))

\* pipeline.flush(): the set after the staged commands, and their replies.
Flush(S, pipeline) == FlushFrom(S, pipeline, 1, <<>>)

\* stageSave: six ZADDs appended to the pipeline.
stageSave(triple, pipeline) ==
  LET values == getHashes(triple)
  IN  pipeline \o [i \in 1..6 |-> ZAddCmd(values[i])]

\* stageDelete: a range removal for a partial triple, ZREM of start for a
\* full one.
stageDelete(triple, pipeline) ==
  LET range == getHashRange(triple)
  IN  IF range[2] # Undefined
        THEN Append(pipeline, ZRemRangeCmd(range[1], range[2]))
        ELSE Append(pipeline, ZRemCmd(range[1]))

\* The loops of batchSave and batchDelete over the triples.
RECURSIVE stageSaves(_, _, _)
stageSaves(triples, i, pipeline) ==
  IF i > Len(triples) THEN pipeline
  ELSE stageSaves(triples, i + 1, stageSave(triples[i], pipeline))

RECURSIVE stageDeletes(_, _, _)
stageDeletes(triples, i, pipeline) ==
  IF i > Len(triples) THEN pipeline
  ELSE stageDeletes(triples, i + 1, stageDelete(triples[i], pipeline))

Ok(v) == [kind |-> "ok", val |-> v]
Thrown(msg) == [kind |-> "error", val |-> msg]

\* save with RPUSH-like appends in place of ZADD: a member may repeat.
saveAppending(S, triple) ==
  [store |-> S \o getHashes(triple), ret |-> Ok(getHashes(triple))]

\* save(triple): the set afterwards and the six values returned.
save(S, triple) ==
  LET values == getHashes(triple)
      done == Flush(S, [i \in 1..6 |-> ZAddCmd(values[i])])
  IN  [store |-> done.store, ret |-> Ok(values)]

\* batchSave(triples): returns nothing.
batchSave(S, triples) ==
  LET done == Flush(S, stageSaves(triples, 1, <<>>))
  IN  [store |-> done.store, ret |-> Ok(<<>>)]

\* delete(triple, pipeline?): with a pipeline the replies of its flush are
\* returned for a partial triple; a full triple returns values.length.
delete(S, triple, withPipeline) ==
  LET range == getHashRange(triple)
      start == range[1]
      end == range[2]
  IN  IF end # Undefined
        THEN IF withPipeline
               THEN LET done == Flush(S, <<ZRemRangeCmd(start, end)>>)
                    IN  [store |-> done.store, ret |-> Ok(done.replies)]
               ELSE LET after == ZRemRangeByLex(S, start, end)
                    IN  [store |-> after, ret |-> Ok(Len(S) - Len(after))]
        ELSE LET values == getHashes(triple)
                 done == Flush(S, [i \in 1..6 |-> ZRemCmd(values[i])])
             IN  [store |-> done.store, ret |-> Ok(Len(values))]

\* batchDelete(triples): returns the replies of the flush.
batchDelete(S, triples) ==
  LET done == Flush(S, stageDeletes(triples, 1, <<>>))
  IN  [store |-> done.store, ret |-> Ok(done.replies)]

----------------------------------------------------------------------------
(* Paginator and ResultDecoder *)

\* An absent cursor (after, before).
NoTriple == Triple(Undefined, Undefined, Undefined)
\* No pagination argument at all.
NoPagination ==
  [given |-> FALSE, first |-> NoNumber, last |-> NoNumber,
   after |-> NoTriple, before |-> NoTriple]
Pagination(first, after, last, before) ==
  [given |-> TRUE, first |-> first, last |-> last,
   after |-> after, before |-> before]

\* Truthiness of a number slot and of a cursor slot.
TruthyNumber(n) == n # NoNumber /\ n # 0
TruthyTriple(t) == t # NoTriple

\* The field a tag letter names; any other character maps to undefined,
\* which join renders as "".
FieldOfChar(char, triple) ==
  CASE char = 115 -> triple.subject
    [] char = 111 -> triple.object
    [] char = 112 -> triple.predicate
    [] OTHER -> <<>>

getTripleHash(encoding, triple) ==
  LET hash == [i \in 1..Len(encoding) |-> FieldOfChar(encoding[i], triple)]
  IN  encoding \o SEPARATOR \o Join(hash, SEPARATOR)

getNameFromEncodingChar(char) ==
  CASE char = 115 -> "subject"
    [] char = 112 -> "predicate"
    [] char = 111 -> "object"
    [] OTHER -> "Bad SOP character input"

\* The first segment of a bound without its "[" or "(".
getEncodingFromHash(hash) ==
  LET encoding == Split(hash)[1]
  IN  IF encoding = <<>> THEN <<>> ELSE Tail(encoding)

\* zip of two arrays: as long as the shorter.
zip(a, b) ==
  [i \in 1..(IF Len(a) < Len(b) THEN Len(a) ELSE Len(b)) |-> <<a[i], b[i]>>]

\* The tag of a key zipped with its three segments (undefined for a
\* segment the key lacks).
zipHash(hash) ==
  LET parts == Split(hash)
      seg(i) == IF i + 1 <= Len(parts) THEN parts[i + 1] ELSE Undefined
  IN  zip(parts[1], <<seg(1), seg(2), seg(3)>>)

\* The callback of hashes.map in queryRange throws: zipped[i] is missing,
\* or a tag character is none of s, p, o.
decodeThrows(hash) ==
  LET zipped == zipHash(hash)
  IN  \/ Len(zipped) < 3
      \/ \E i \in 1..3 :
           getNameFromEncodingChar(zipped[i][1]) = "Bad SOP character input"

\* The callback of hashes.map in queryRange: the triple a key decodes to.
decodeHash(hash) ==
  LET zipped == zipHash(hash)
      names == [i \in 1..3 |-> getNameFromEncodingChar(zipped[i][1])]
      \* a later computed property overrides an earlier one of the same name
      prop(name) ==
        IF \E i \in 1..3 : names[i] = name
          THEN zipped[CHOOSE i \in 1..3 :
                        /\ names[i] = name
                        /\ \A j \in (i + 1)..3 : names[j] # name][2]
          ELSE Undefined
  IN  Triple(prop("subject"), prop("predicate"), prop("object"))

decodeAll(hashes) ==
  IF \E i \in DOMAIN hashes : decodeThrows(hashes[i])
    THEN Thrown("decode")
    ELSE Ok([i \in DOMAIN hashes |-> decodeHash(hashes[i])])

\* Given a start and an end bound, the triples of the keys in that range.
queryRange(S, start0, end0, pagination0) ==
  LET startEncoding == getEncodingFromHash(start0)
      endEncoding == getEncodingFromHash(end0)
      pagination == IF pagination0.given THEN pagination0
                    ELSE [pagination0 EXCEPT !.first = DEFAULT_PAGE_SIZE]
      first == pagination.first
      last == pagination.last
      after == pagination.after
      before == pagination.before
      forward == TruthyNumber(first) \/ TruthyTriple(after)
      backward == TruthyNumber(last) \/ TruthyTriple(before)
  IN  IF startEncoding # endEncoding THEN Thrown("Invalid query range")
      ELSE IF forward /\ backward THEN Thrown("Invalid pagination parameters")
      ELSE IF forward
        THEN LET limit == IF first = NoNumber THEN DEFAULT_PAGE_SIZE ELSE first
                 start == IF TruthyTriple(after)
                            THEN <<40>> \o getTripleHash(startEncoding, after)
                            ELSE start0
             IN  decodeAll(ZRangeByLex(S, start, end0, limit))
      ELSE IF backward
        THEN LET limit == IF last = NoNumber THEN DEFAULT_PAGE_SIZE ELSE last
                 end == IF TruthyTriple(before)
                          THEN <<40>> \o getTripleHash(startEncoding, before)
                          ELSE end0
             IN  decodeAll(ZRevRangeByLex(S, end, start0, limit))
      ELSE Ok(<<>>)

\* query(query, pagination?): one exact lookup for a full triple, a range
\* scan for a partial one.
query(S, q, pagination) ==
  LET range == getHashRange(q)
      start == range[1]
      end == range[2]
  IN  IF end = Undefined
        THEN IF ZScoreExists(S, start)
               THEN Ok(<<Triple(q.subject, q.predicate, q.object)>>)
               ELSE Ok(<<>>)
        ELSE queryRange(S, start, end, pagination)

\* filter(filter, pagination?)
filter(S, f, pagination) ==
  LET range == getHashFilterRange(f)
  IN  IF range = Undefined THEN Thrown("Invalid filter")
      ELSE queryRange(S, range[1], range[2], pagination)

\* Exactly one of query and filter is given to count.
NoFilter == Filter("none", Undefined, Undefined, Undefined, Undefined, Undefined)
CountByQuery(cursor, q) == [cursor |-> cursor, byQuery |-> TRUE, query |-> q, filter |-> NoFilter]
CountByFilter(cursor, f) == [cursor |-> cursor, byQuery |-> FALSE, query |-> NoTriple, filter |-> f]

\* count with the cursor as an inclusive bound.
countInclusive(S, direction, params) ==
  LET cursor == params.cursor
      range == IF params.byQuery THEN getHashRange(params.query)
                                 ELSE getHashFilterRange(params.filter)
  IN  IF range = Undefined THEN Thrown("Invalid filter")
      ELSE IF params.byQuery /\ range[2] = Undefined THEN Ok(0)
      ELSE LET startEncoding == getEncodingFromHash(range[1])
               bound == <<91>> \o getTripleHash(startEncoding, cursor)
           IN  IF direction = "after"
                 THEN Ok(ZLexCount(S, IF TruthyTriple(cursor) THEN bound ELSE range[1],
                                   range[2]))
                 ELSE Ok(ZLexCount(S, range[1],
                                   IF TruthyTriple(cursor) THEN bound ELSE range[2]))

\* count(direction, {cursor, query | filter})
count(S, direction, params) ==
  LET cursor == params.cursor
      range == IF params.byQuery THEN getHashRange(params.query)
                                 ELSE getHashFilterRange(params.filter)
  IN  IF range = Undefined THEN Thrown("Invalid filter")
      ELSE IF params.byQuery /\ range[2] = Undefined THEN Ok(0)
      ELSE LET startEncoding == getEncodingFromHash(range[1])
               bound == <<40>> \o getTripleHash(startEncoding, cursor)
           IN  IF direction = "after"
                 THEN Ok(ZLexCount(S, IF TruthyTriple(cursor) THEN bound ELSE range[1],
                                   range[2]))
                 ELSE Ok(ZLexCount(S, range[1],
                                   IF TruthyTriple(cursor) THEN bound ELSE range[2]))

----------------------------------------------------------------------------
(* JoinEngine *)

\* A part of a search statement: a literal, or the symbol v(name) returns.
\* A symbol that v did not make has no key (name "").
Lit(value) == [sym |-> FALSE, name |-> "", lit |-> value]
v(variableName) == [sym |-> TRUE, name |-> variableName, lit |-> Undefined]
Statement(s, p, o) == [subject |-> s, predicate |-> p, object |-> o]

FieldNames == <<"subject", "predicate", "object">>
FieldNamed(x, key) ==
  CASE key = "subject" -> x.subject
    [] key = "predicate" -> x.predicate
    [] key = "object" -> x.object

isComplexStatement(statement) ==
  statement.subject.sym /\ statement.predicate.sym /\ statement.object.sym

\* The keys of the statement that hold a symbol, in the order of its
\* entries (subject, predicate, object).
SymbolKeys(statement) ==
  SelectSeq(FieldNames, LAMBDA key : FieldNamed(statement, key).sym)

\* targets: variable name -> the key it stands at (the last such key).
TargetNames(statement) ==
  {FieldNamed(statement, SymbolKeys(statement)[i]).name :
     i \in DOMAIN SymbolKeys(statement)}
TargetOf(statement, name) ==
  LET keys == SymbolKeys(statement)
      last == CHOOSE i \in DOMAIN keys :
                /\ FieldNamed(statement, keys[i]).name = name
                /\ \A j \in (i + 1)..Len(keys) :
                     FieldNamed(statement, keys[j]).name # name
  IN  keys[last]

\* The statement with its variables deleted: a partial triple.
PartialOf(statement) ==
  Triple(IF statement.subject.sym THEN Undefined ELSE statement.subject.lit,
         IF statement.predicate.sym THEN Undefined ELSE statement.predicate.lit,
         IF statement.object.sym THEN Undefined ELSE statement.object.lit)

\* One turn of the loop over the statements: the materialized variables
\* after the statement, given the result of its query.  Only the values
\* of filteredResults are read, so it is kept as a set.
Materialize(materialized, statement, result) ==
  LET names == TargetNames(statement)
      filteredResults ==
        IF DOMAIN materialized # {}
          THEN {result[i] : i \in
                  {i \in DOMAIN result :
                     \E key \in names :
                       /\ key \in DOMAIN materialized
                       /\ FieldNamed(result[i], TargetOf(statement, key))
                            \in materialized[key]}}
          ELSE {result[i] : i \in DOMAIN result}
  IN  [key \in DOMAIN materialized \cup names |->
         IF key \in names
           THEN {FieldNamed(triple, TargetOf(statement, key)) :
                   triple \in filteredResults}
           ELSE materialized[key]]

RECURSIVE searchFrom(_, _, _, _)
searchFrom(S, statements, i, materialized) ==
  IF i > Len(statements) THEN Ok(materialized)
  ELSE LET statement == statements[i]
       IN  IF isComplexStatement(statement)
             THEN Thrown("Complex queries")
           ELSE IF "" \in TargetNames(statement)
             THEN Thrown("Variable unknown")
           ELSE LET result == query(S, PartialOf(statement), NoPagination)
                IN  IF result.kind # "ok" THEN result
                    ELSE searchFrom(S, statements, i + 1,
                           Materialize(materialized, statement, result.val))

\* search(statements)
search(S, statements) == searchFrom(S, statements, 1, <<>>)

----------------------------------------------------------------------------
(* The calls.  Every method is async: a call leaves its result with the    *)
(* caller, who resumes before making the next call.                        *)

MaxBatch == 2
MaxTriples == 2

Idle == [name |-> "idle"]

ValuesOf(S) == S \cup {Undefined}
TriplesOver(S, P, O) == {Triple(s, p, o) : s \in S, p \in P, o \in O}
\* Partial triples fixing at least one field.
PartialsOver(S, P, O) ==
  TriplesOver(ValuesOf(S), ValuesOf(P), ValuesOf(O))
    \ {Triple(Undefined, Undefined, Undefined)}

SeqsUpTo(S, n) == UNION {[1..k -> S] : k \in 1..n}

\* "a" and "ab": one value is a prefix of the other.
Value == {<<97>>, <<97, 98>>}

\* The triples and partial triples of the calls that write.
WTriples == TriplesOver(Value, {<<97>>}, {<<97>>})
WPartials == PartialsOver(Value, {<<97>>}, {<<97>>})

\* The triples and partial triples of the calls that read.
RTriples == TriplesOver(Value, Value, Value)
RPartials == TriplesOver(ValuesOf(Value), ValuesOf(Value), ValuesOf(Value))

MaxPage == 2
Numbers == {NoNumber} \cup 0..MaxPage
Cursors == {NoTriple} \cup RTriples
\* Forward, backward and mixed pagination arguments, and none.
Paginations ==
  {NoPagination}
    \cup {Pagination(f, a, NoNumber, NoTriple) : f \in Numbers, a \in Cursors}
    \cup {Pagination(NoNumber, NoTriple, l, b) : l \in Numbers, b \in Cursors}
    \cup {Pagination(f, a, l, b) :
            f \in {NoNumber, 1}, l \in {NoNumber, 1},
            a \in {NoTriple, Triple(<<97>>, <<97>>, <<97>>)},
            b \in {NoTriple, Triple(<<97>>, <<97>>, <<97>>)}}

Init ==
  /\ store = <<>>
  /\ op = Idle
  /\ ret = Ok(<<>>)
  /\ saved = {}

Resume ==
  /\ op # Idle
  /\ op' = Idle
  /\ ret' = Ok(<<>>)
  /\ UNCHANGED <<store, saved>>

\* save(triple), while the set holds at most N triples' keys.
Save(U, N) ==
  /\ op = Idle
  /\ \E t \in U :
       LET r == save(store, t)
       IN  /\ Len(r.store) <= 6 * N
           /\ store' = r.store
           /\ op' = [name |-> "save", triple |-> t,
                     resave |-> \A i \in 1..6 : getHashes(t)[i] \in Members(store)]
           /\ ret' = r.ret
           /\ saved' = saved \cup {t}

BatchSave(U) ==
  /\ op = Idle
  /\ \E ts \in SeqsUpTo(U, MaxBatch) :
       LET r == batchSave(store, ts)
       IN  /\ Len(r.store) <= 6 * MaxTriples
           /\ store' = r.store
           /\ op' = [name |-> "batchSave", triples |-> ts]
           /\ ret' = r.ret
           /\ saved' = saved \cup {ts[i] : i \in DOMAIN ts}

Delete(U) ==
  /\ op = Idle
  /\ \E t \in U, b \in BOOLEAN :
       LET r == delete(store, t, b)
       IN  /\ store' = r.store
           /\ op' = [name |-> "delete", triple |-> t, pipeline |-> b]
           /\ ret' = r.ret
           /\ UNCHANGED saved

BatchDelete(U) ==
  /\ op = Idle
  /\ \E ts \in SeqsUpTo(U, MaxBatch) :
       LET r == batchDelete(store, ts)
       IN  /\ store' = r.store
           /\ op' = [name |-> "batchDelete", triples |-> ts]
           /\ ret' = r.ret
           /\ UNCHANGED saved

Query(Qs, Pgs) ==
  /\ op = Idle
  /\ \E q \in Qs, pg \in Pgs :
       /\ op' = [name |-> "query", query |-> q, pagination |-> pg]
       /\ ret' = query(store, q, pg)
       /\ UNCHANGED <<store, saved>>

Next ==
  \/ Save(WTriples, MaxTriples)
  \/ BatchSave(WTriples)
  \/ Delete(WPartials)
  \/ BatchDelete(WPartials)
  \/ Resume

Spec == Init /\ [][Next]_vars

NextQuery == Save(RTriples, MaxTriples) \/ Query(RPartials, Paginations) \/ Resume

SpecQuery == Init /\ [][NextQuery]_vars

\* The filter statements: a bounded field, bounds around the values, and
\* the other two fields fixed or not.
Bound == ValuesOf(Value \cup {<<98>>})
Filters ==
  {Filter("subject", min, max, Undefined, p, o) :
     min \in Bound, max \in Bound, p \in ValuesOf(Value), o \in ValuesOf(Value)}
    \cup {Filter("predicate", min, max, s, Undefined, o) :
            min \in Bound, max \in Bound,
            s \in ValuesOf(Value), o \in ValuesOf(Value)}
    \cup {Filter("object", min, max, s, p, Undefined) :
            min \in Bound, max \in Bound,
            s \in ValuesOf(Value), p \in ValuesOf(Value)}
\* One page from either end, or no pagination argument.
PageSizes ==
  {NoPagination}
    \cup {Pagination(k, NoTriple, NoNumber, NoTriple) : k \in 1..MaxPage}
    \cup {Pagination(NoNumber, NoTriple, k, NoTriple) : k \in 1..MaxPage}

FilterCall(Fs, Pgs) ==
  /\ op = Idle
  /\ \E f \in Fs, pg \in Pgs :
       /\ op' = [name |-> "filter", filter |-> f, pagination |-> pg]
       /\ ret' = filter(store, f, pg)
       /\ UNCHANGED <<store, saved>>

NextFilter ==
  \/ Save(RTriples, MaxTriples)
  \/ FilterCall(Filters, PageSizes)
  \/ Resume

SpecFilter == Init /\ [][NextFilter]_vars

\* A caller paging through the result of one partial query or filter: the
\* first page, then pages from the last triple of the page before, until a
\* page comes back empty or a call throws.
PageQueries == {q \in PartialsOver(Value, Value, Value) : ~Truthy(q.subject)
                  \/ ~Truthy(q.predicate) \/ ~Truthy(q.object)}
PageFilters ==
  {f \in Filters : <<f.min, f.max>> \in {<<Undefined, <<97, 98>>>>,
                                         <<<<97>>, Undefined>>,
                                         <<<<97>>, <<98>>>>}}
PageTargets ==
  {[byQuery |-> TRUE, query |-> q, filter |-> NoFilter] : q \in PageQueries}
    \cup {[byQuery |-> FALSE, query |-> NoTriple, filter |-> f] :
            f \in PageFilters}

PageOf(S, target, forward, k, cursor) ==
  LET pagination == IF forward THEN Pagination(k, cursor, NoNumber, NoTriple)
                    ELSE Pagination(NoNumber, NoTriple, k, cursor)
  IN  IF target.byQuery THEN query(S, target.query, pagination)
      ELSE filter(S, target.filter, pagination)

FirstPage ==
  /\ op = Idle
  /\ \E target \in PageTargets, k \in 1..MaxPage, forward \in BOOLEAN :
       LET r == PageOf(store, target, forward, k, NoTriple)
       IN  /\ op' = [name |-> "pages", target |-> target, k |-> k,
                     forward |-> forward,
                     acc |-> IF r.kind = "ok" THEN r.val ELSE <<>>,
                     done |-> r.kind # "ok" \/ r.val = <<>>]
           /\ ret' = r
  /\ UNCHANGED <<store, saved>>

NextPage ==
  /\ op.name = "pages"
  /\ ~op.done
  /\ LET r == PageOf(store, op.target, op.forward, op.k, ret.val[Len(ret.val)])
     IN  /\ op' = [op EXCEPT
                     !.acc = IF r.kind = "ok" THEN @ \o r.val ELSE @,
                     !.done = r.kind # "ok" \/ r.val = <<>>]
         /\ ret' = r
  /\ UNCHANGED <<store, saved>>

NextPages ==
  \/ Save(RTriples, MaxTriples)
  \/ FirstPage
  \/ NextPage
  \/ Resume

SpecPages == Init /\ [][NextPages]_vars

\* Counts before and after a cursor, by query and by filter.
CountParams ==
  {CountByQuery(cursor, q) : cursor \in Cursors, q \in RPartials}
    \cup {CountByFilter(cursor, f) : cursor \in Cursors, f \in PageFilters}

Count ==
  /\ op = Idle
  /\ \E direction \in {"before", "after"}, params \in CountParams :
       /\ op' = [name |-> "count", direction |-> direction, params |-> params]
       /\ ret' = count(store, direction, params)
  /\ UNCHANGED <<store, saved>>

NextCount ==
  \/ Save(RTriples, MaxTriples)
  \/ Count
  \/ Resume

SpecCount == Init /\ [][NextCount]_vars

\* A long run of saves: the edges of one subject under both predicates,
\* then edges of distinct subjects under the predicate "a", saved in an
\* order that is not the order of their keys.
BulkMax == 103
BulkTop == <<122>>
BulkSubject(i) ==
  LET j == (i * 7) % 128
  IN  <<97 + (j \div 16), 97 + (j % 16)>>
BulkObject(i) == IF i % 2 = 0 THEN <<97>> ELSE <<97, 98>>
BulkTriple(i) ==
  IF i = 1 THEN Triple(BulkTop, <<97, 98>>, <<97, 98>>)
  ELSE IF i = 2 THEN Triple(BulkTop, <<97>>, <<97, 98>>)
  ELSE Triple(BulkSubject(i), <<97>>, BulkObject(i))
BulkPartials == PartialsOver({BulkTop, BulkSubject(3)}, Value, Value)

\* The edges "a" and "ab" of one subject, as in the search of the tests.
BulkSearches ==
  {<<Statement(v("who"), Lit(<<97>>), v("what")),
     Statement(v("who"), Lit(<<97, 98>>), v("where"))>>,
   <<Statement(v("who"), Lit(<<97, 98>>), v("where")),
     Statement(v("who"), Lit(<<97>>), v("what"))>>}

Search(Ss) ==
  /\ op = Idle
  /\ \E statements \in Ss :
       /\ op' = [name |-> "search", statements |-> statements]
       /\ ret' = search(store, statements)
  /\ UNCHANGED <<store, saved>>

NextBulk ==
  \/ Save({BulkTriple(Cardinality(saved) + 1)}, BulkMax)
  \/ Query(BulkPartials, {NoPagination})
  \/ Search(BulkSearches)
  \/ Resume

SpecBulk == Init /\ [][NextBulk]_vars

\* The encoder and the decoder on their own: a triple over strings that
\* may hold NUL and the sentinel is encoded into its six keys, and the keys
\* are decoded as queryRange decodes the keys of a scan.
CodecMaxLen == 3
CodecValue == SeqsUpTo({0, 97}, CodecMaxLen) \cup {<<255>>, <<97, 255>>}

InitCodec ==
  /\ store = <<>>
  /\ saved = {}
  /\ \E t \in TriplesOver(CodecValue, CodecValue, CodecValue) :
       op = [name |-> "triple", triple |-> t]
  /\ ret = Ok(<<>>)

Encode ==
  /\ op.name = "triple"
  /\ op' = [op EXCEPT !.name = "getHashes"]
  /\ ret' = Ok(getHashes(op.triple))
  /\ UNCHANGED <<store, saved>>

Decode ==
  /\ op.name = "getHashes"
  /\ op' = [op EXCEPT !.name = "decode"]
  /\ ret' = decodeAll(ret.val)
  /\ UNCHANGED <<store, saved>>

NextCodec == Encode \/ Decode

SpecCodec == InitCodec /\ [][NextCodec]_vars

\* Searches of two statements over the small universe.
SearchStatements ==
  {Statement(s, p, o) :
     s \in {v("x"), v("y"), Lit(<<97>>), Lit(<<97, 98>>)},
     p \in {v("p"), Lit(<<97>>), Lit(<<97, 98>>)},
     o \in {v("x"), v("z"), Lit(<<97>>), Lit(<<97, 98>>)}}
Searches == {<<s1, s2>> : s1 \in SearchStatements, s2 \in SearchStatements}

NextSearch ==
  \/ Save(RTriples, MaxTriples)
  \/ Search(Searches)
  \/ Resume

SpecSearch == Init /\ [][NextSearch]_vars

----------------------------------------------------------------------------
(* Claims on the writes, under Spec *)

Keys(t) == {getHashes(t)[i] : i \in 1..6}
Occurrences(S, m) == Cardinality({i \in DOMAIN S : S[i] = m})

\* C1: in every reachable state, for every triple either all six of its
\* permutation keys are members of the sorted set or none of them is.
C1_AllSixOrNone ==
  \A t \in WTriples :
    \/ Keys(t) \subseteq Members(store)
    \/ Keys(t) \cap Members(store) = {}

\* C9: delete called without a batch returns the number of index keys that
\* call removed from the sorted set (0 when nothing matched).
C9_DeleteReturnsRemoved ==
  [][(op'.name = "delete" /\ ~op'.pipeline)
       => ret' = Ok(Len(store) - Len(store'))]_vars

\* C10: save is idempotent: saving a triple leaves each of its six keys in
\* the set exactly once, and saving a triple whose six keys are already
\* there (as after a first save of it) leaves the set as it was.
C10_SaveIdempotent ==
  [][op'.name = "save"
       => /\ Cardinality(Keys(op'.triple)) = 6
          /\ \A m \in Keys(op'.triple) : Occurrences(store', m) = 1
          /\ (op'.resave => store' = store)]_vars

\* A save of a triple that was saved before has returned.
C10_Witness == op.name = "save" /\ op.resave

----------------------------------------------------------------------------
(* Claims on query, under SpecQuery *)

IsFull(q) == Truthy(q.subject) /\ Truthy(q.predicate) /\ Truthy(q.object)

----------------------------------------------------------------------------
(* Claims on long results, under SpecBulk *)

Matches(t, q) ==
  /\ Truthy(q.subject) => t.subject = q.subject
  /\ Truthy(q.predicate) => t.predicate = q.predicate
  /\ Truthy(q.object) => t.object = q.object
Matching(q) == {t \in saved : Matches(t, q)}

IsPartial(q) ==
  /\ ~IsFull(q)
  /\ Truthy(q.subject) \/ Truthy(q.predicate) \/ Truthy(q.object)

\* The permutation of each combination of fixed fields.
OrderOf(q) ==
  IF Truthy(q.subject) /\ Truthy(q.predicate) THEN spo
  ELSE IF Truthy(q.subject) /\ Truthy(q.object) THEN osp
  ELSE IF Truthy(q.predicate) THEN pos
  ELSE IF Truthy(q.subject) THEN spo
  ELSE osp

KeyUnder(order, t) ==
  Join(<<order>> \o [i \in 1..3 |-> FieldOfChar(order[i], t)], SEPARATOR)

Ascending(order, r) ==
  \A i \in 1..(Len(r) - 1) :
    LexLT(KeyUnder(order, r[i]), KeyUnder(order, r[i + 1]))

Range(r) == {r[i] : i \in DOMAIN r}
Min(a, b) == IF a < b THEN a ELSE b

UnpagedPartialQuery ==
  op.name = "query" /\ ~op.pagination.given /\ IsPartial(op.query)

\* C3 as stated: query on a partial triple without a pagination argument
\* returns exactly the saved triples that match it, however many, each
\* once, in ascending order of their keys under the partial's permutation.
C3_PartialQueryAll ==
  UnpagedPartialQuery
    => /\ ret.kind = "ok"
       /\ Range(ret.val) = Matching(op.query)
       /\ Len(ret.val) = Cardinality(Matching(op.query))
       /\ Ascending(OrderOf(op.query), ret.val)

\* C3 amended: query on a partial triple without a pagination argument
\* returns the first min(N, DEFAULT_PAGE_SIZE) of the N saved triples that
\* match it, each once and no others, in ascending order of their keys
\* under the partial's permutation.
C3_PartialQueryFirstPage ==
  UnpagedPartialQuery
    => /\ ret.kind = "ok"
       /\ Range(ret.val) \subseteq Matching(op.query)
       /\ Len(ret.val) = Min(Cardinality(Matching(op.query)), DEFAULT_PAGE_SIZE)
       /\ Ascending(OrderOf(op.query), ret.val)
       /\ \A t \in Matching(op.query) \ Range(ret.val) :
            LexLT(KeyUnder(OrderOf(op.query), ret.val[Len(ret.val)]),
                  KeyUnder(OrderOf(op.query), t))

\* A query by predicate alone returned a full page of the more than
\* DEFAULT_PAGE_SIZE saved triples that match it.
C3_Witness ==
  /\ UnpagedPartialQuery
  /\ op.query = Triple(Undefined, <<97>>, Undefined)
  /\ Cardinality(Matching(op.query)) > DEFAULT_PAGE_SIZE
  /\ ret.kind = "ok"
  /\ Len(ret.val) = DEFAULT_PAGE_SIZE

----------------------------------------------------------------------------
(* Claims on the encoding, under SpecCodec *)

Contains(s, sub) ==
  \E i \in 1..(Len(s) - Len(sub) + 1) : SubSeq(s, i, i + Len(sub) - 1) = sub

\* A non-empty string without the separator and without the sentinel.
NoCollision(s) ==
  s # <<>> /\ ~Contains(s, SEPARATOR) /\ ~Contains(s, SENTINEL)
NoCollisions(t) ==
  NoCollision(t.subject) /\ NoCollision(t.predicate) /\ NoCollision(t.object)

\* A string that neither begins nor ends with a NUL.
NoNulAtEnds(s) == s # <<>> /\ Head(s) # 0 /\ s[Len(s)] # 0
NoNulsAtEnds(t) ==
  NoNulAtEnds(t.subject) /\ NoNulAtEnds(t.predicate) /\ NoNulAtEnds(t.object)

----------------------------------------------------------------------------
(* Claims on filter, under SpecFilter *)

LexLE(a, b) == a = b \/ LexLT(a, b)

\* The page of the call holds n triples.
FitsOnePage(pg, n) ==
  IF ~pg.given THEN n <= DEFAULT_PAGE_SIZE
  ELSE IF pg.first # NoNumber THEN n <= pg.first
  ELSE n <= pg.last

\* filter on the predicate alone with exactly one of min and max.
HalfOpenPredicateFilter ==
  /\ op.name = "filter"
  /\ op.filter.field = "predicate"
  /\ op.filter.subject = Undefined
  /\ op.filter.object = Undefined
  /\ (op.filter.min = Undefined) # (op.filter.max = Undefined)

ReturnsExactly(expected) ==
  FitsOnePage(op.pagination, Cardinality(expected))
    => /\ ret.kind = "ok"
       /\ Range(ret.val) = expected
       /\ Len(ret.val) = Cardinality(expected)

\* C5 as stated: filter on the predicate with [min, undefined] returns
\* exactly the stored triples whose predicate is >= min, and with
\* [undefined, max] exactly those whose predicate is <= max, when the
\* result fits in one page.
C5_HalfOpenInclusive ==
  HalfOpenPredicateFilter
    => IF op.filter.max = Undefined
         THEN ReturnsExactly({t \in saved : LexLE(op.filter.min, t.predicate)})
         ELSE ReturnsExactly({t \in saved : LexLE(t.predicate, op.filter.max)})

\* C5 amended: filter on the predicate with [min, undefined] returns
\* exactly the stored triples whose predicate is >= min, and with
\* [undefined, max] exactly those whose predicate is < max (a triple whose
\* predicate equals max is left out), when the result fits in one page.
C5_HalfOpenMaxExcluded ==
  HalfOpenPredicateFilter
    => IF op.filter.max = Undefined
         THEN ReturnsExactly({t \in saved : LexLE(op.filter.min, t.predicate)})
         ELSE ReturnsExactly({t \in saved : LexLT(t.predicate, op.filter.max)})

\* A filter with only a max left out a stored triple whose predicate is
\* max and returned one whose predicate is below it.
C5_Witness ==
  /\ HalfOpenPredicateFilter
  /\ op.filter.max = <<97, 98>>
  /\ \E t \in saved : t.predicate = <<97, 98>>
  /\ ret.kind = "ok"
  /\ Len(ret.val) = 1
  /\ ret.val[1].predicate = <<97>>

----------------------------------------------------------------------------
(* Claims on pagination, under SpecPages *)

\* One forward scan of the whole range of a query or filter, with no limit.
WholeScan(target) ==
  LET range == IF target.byQuery THEN getHashRange(target.query)
               ELSE getHashFilterRange(target.filter)
  IN  decodeAll(ZRangeByLex(store, range[1], range[2], Len(store))).val

\* C6: for any partial query or filter and any page size k >= 1, the
\* forward pages ({first: k}, then {first: k, after: last triple of the page
\* before}, until an empty page) concatenate to one forward scan of the
\* whole range with no limit, and the backward pages to that scan reversed.
C6_PagesConcatenate ==
  (op.name = "pages" /\ op.done)
    => /\ ret.kind = "ok"
       /\ op.acc = IF op.forward THEN WholeScan(op.target)
                   ELSE Reverse(WholeScan(op.target))

----------------------------------------------------------------------------
(* Claims on search, under SpecBulk and SpecSearch *)

VariablesOf(statement) ==
  {FieldNamed(statement, FieldNames[i]).name :
     i \in {i \in 1..3 : FieldNamed(statement, FieldNames[i]).sym}}
PositionOf(statement, name) ==
  CHOOSE key \in {"subject", "predicate", "object"} :
    /\ FieldNamed(statement, key).sym
    /\ FieldNamed(statement, key).name = name
ValuesAt(statement, name, triples) ==
  {FieldNamed(t, PositionOf(statement, name)) : t \in triples}

\* Two statements with literal predicates that share exactly one variable.
JoinOfTwo(statements) ==
  /\ Len(statements) = 2
  /\ \A i \in 1..2 :
       /\ ~statements[i].predicate.sym
       /\ statements[i].subject.sym /\ statements[i].object.sym
            => statements[i].subject.name # statements[i].object.name
  /\ Cardinality(VariablesOf(statements[1]) \cap VariablesOf(statements[2])) = 1

\* The result C7 describes for such a search.
JoinResult(statements) ==
  LET S1 == statements[1]
      S2 == statements[2]
      X == CHOOSE x \in VariablesOf(S1) \cap VariablesOf(S2) : TRUE
      M1 == Matching(PartialOf(S1))
      M2 == Matching(PartialOf(S2))
      X1 == ValuesAt(S1, X, M1)
  IN  [name \in VariablesOf(S1) \cup VariablesOf(S2) |->
         IF name = X THEN X1 \cap ValuesAt(S2, X, M2)
         ELSE IF name \in VariablesOf(S1) THEN ValuesAt(S1, name, M1)
         ELSE ValuesAt(S2, name,
                       {t \in M2 : FieldNamed(t, PositionOf(S2, X)) \in X1})]

\* C7: for search([S1, S2]) with literal predicates and exactly one shared
\* variable X, X maps to the values that a stored match of S1 and a stored
\* match of S2 both have at X's position, a variable of S1 alone to all
\* values at its position among S1's matches, and a variable of S2 alone to
\* the values at its position among the S2 matches whose X value is in S1's
\* X set.
C7_SearchJoin ==
  (op.name = "search" /\ JoinOfTwo(op.statements))
    => /\ ret.kind = "ok"
       /\ ret.val = JoinResult(op.statements)

----------------------------------------------------------------------------
(* Claims on count, under SpecCount *)

\* The stored matches of q on one side of the cursor in key order.
Beyond(direction, q, cursor) ==
  {t \in Matching(q) :
     IF direction = "after"
       THEN LexLT(KeyUnder(OrderOf(q), cursor), KeyUnder(OrderOf(q), t))
       ELSE LexLT(KeyUnder(OrderOf(q), t), KeyUnder(OrderOf(q), cursor))}

\* The unlimited page after (forward) or before (backward) the cursor.
UnlimitedPage(direction, q, cursor) ==
  query(store, q,
        IF direction = "after"
          THEN Pagination(Len(store) + 1, cursor, NoNumber, NoTriple)
          ELSE Pagination(NoNumber, NoTriple, Len(store) + 1, cursor))

CountAtStoredCursor ==
  /\ op.name = "count"
  /\ op.params.byQuery
  /\ IsPartial(op.params.query)
  /\ op.params.cursor \in saved
  /\ Matches(op.params.cursor, op.params.query)

\* C8: for a partial query and a cursor that is a stored triple matching
\* it, count("after") is the number of stored matches whose key under the
\* query's permutation is strictly greater than the cursor's, count("before")
\* the number whose key is strictly smaller, and these are the lengths of
\* the unlimited pages after and before the cursor; for a query fixing all
\* three fields count returns 0 in both directions.
C8_CountBeyondCursor ==
  /\ CountAtStoredCursor
       => /\ ret = Ok(Cardinality(Beyond(op.direction, op.params.query,
                                         op.params.cursor)))
          /\ ret.val = Len(UnlimitedPage(op.direction, op.params.query,
                                         op.params.cursor).val)
  /\ (op.name = "count" /\ op.params.byQuery /\ IsFull(op.params.query))
       => ret = Ok(0)

\* A count found a stored match beyond the cursor, with another stored
\* match on the other side or at the cursor only.
C8_Witness ==
  /\ CountAtStoredCursor
  /\ Cardinality(Matching(op.params.query)) > 1
  /\ ret = Ok(1)

----------------------------------------------------------------------------
(* Claims on the pagination argument, under SpecQuery *)

\* A pagination argument that supplies a forward and a backward parameter.
MixedPagination(pg) ==
  /\ pg.given
  /\ pg.first # NoNumber \/ pg.after # NoTriple
  /\ pg.last # NoNumber \/ pg.before # NoTriple

\* C11: every call to query whose pagination argument supplies at least
\* one forward parameter (first or after) and at least one backward
\* parameter (last or before) is rejected with an error and returns no
\* triples, whatever the shape of the query, a full triple included.
C11_MixedPaginationRejected ==
  (op.name = "query" /\ MixedPagination(op.pagination))
    => ret.kind = "error"

----------------------------------------------------------------------------
(* Claims on the filter layouts, under SpecFilter *)

\* A filter call with at least one of min and max.
BoundedFilter ==
  /\ op.name = "filter"
  /\ op.filter.min # Undefined \/ op.filter.max # Undefined

LetterOf(field) ==
  CASE field = "subject" -> 115
    [] field = "predicate" -> 112
    [] field = "object" -> 111

\* The letters of the fields the filter fixes.
FixedLetters(f) ==
  {LetterOf(FieldNames[i]) :
     i \in {i \in 1..3 : Truthy(FieldNamed(f, FieldNames[i]))}}

\* One permutation for both bounds, the fixed fields first and the bounded
\* field next.
LayoutPlacesBoundedField(f) ==
  LET range == getHashFilterRange(f)
      tag == getEncodingFromHash(range[1])
      n == Cardinality(FixedLetters(f))
  IN  /\ getEncodingFromHash(range[2]) = tag
      /\ Len(tag) = 3
      /\ {tag[i] : i \in 1..n} = FixedLetters(f)
      /\ tag[n + 1] = LetterOf(f.field)

\* t has the fixed fields of f, and its bounded field is between min and
\* max.
WithinFilter(t, f) ==
  /\ Matches(t, f)
  /\ f.min # Undefined => LexLE(f.min, FieldNamed(t, f.field))
  /\ f.max # Undefined => LexLE(FieldNamed(t, f.field), f.max)

\* C12: in each of the 12 filter layouts start and end use one permutation
\* in which the fixed fields come first and the bounded field is the next
\* segment, so that filter returns only stored triples whose fixed fields
\* equal the supplied values and whose bounded field lies between min and
\* max.
C12_FilterLayouts ==
  BoundedFilter
    => /\ LayoutPlacesBoundedField(op.filter)
       /\ ret.kind = "ok"
       /\ \A i \in DOMAIN ret.val :
            ret.val[i] \in saved /\ WithinFilter(ret.val[i], op.filter)

----------------------------------------------------------------------------
(* Claims on the range check of queryRange, under SpecFilter and SpecQuery *)

\* C13 (filter): for every filter with at least one of min and max the
\* start and end bounds handed to queryRange carry the same permutation
\* tag, so filter never raises "Invalid query range".
C13_FilterRangeTagsAgree ==
  BoundedFilter
    => /\ getEncodingFromHash(getHashFilterRange(op.filter)[1])
            = getEncodingFromHash(getHashFilterRange(op.filter)[2])
       /\ ret # Thrown("Invalid query range")

\* C13 (query): for every partial triple passed to query the start and end
\* bounds carry the same permutation tag, so query never raises "Invalid
\* query range".
C13_QueryRangeTagsAgree ==
  (op.name = "query" /\ ~IsFull(op.query))
    => /\ getEncodingFromHash(getHashRange(op.query)[1])
            = getEncodingFromHash(getHashRange(op.query)[2])
       /\ ret # Thrown("Invalid query range")

----------------------------------------------------------------------------
(* Claims on the query that fixes no field, under SpecQuery *)

\* C14: query with a partial triple that fixes no field scans the keys of
\* one permutation tag, so without a pagination argument it returns every
\* stored triple once (up to the page size) rather than failing.
C14_EmptyQueryScans ==
  (op.name = "query" /\ op.query = NoTriple /\ ~op.pagination.given)
    => /\ getEncodingFromHash(getHashRange(op.query)[1]) \in
            {spo, sop, pos, osp, pso, ops}
       /\ ret.kind = "ok"
       /\ Range(ret.val) \subseteq saved
       /\ Len(ret.val) = Min(Cardinality(saved), DEFAULT_PAGE_SIZE)
       /\ Cardinality(Range(ret.val)) = Len(ret.val)

----------------------------------------------------------------------------
(* Claims on cursors, under SpecQuery *)

\* r is a subsequence of w, a sequence without repetitions.
PositionIn(w, x) == CHOOSE i \in DOMAIN w : w[i] = x
IsSubsequence(r, w) ==
  /\ \A i \in DOMAIN r : r[i] \in Range(w)
  /\ \A i \in DOMAIN r : \A j \in DOMAIN r :
       i < j => PositionIn(w, r[i]) < PositionIn(w, r[j])

QueryTarget(q) == [byQuery |-> TRUE, query |-> q, filter |-> NoFilter]

\* A query on a partial triple, paged from a cursor in one direction, has
\* returned.
QueryFromCursor ==
  /\ op.name = "query"
  /\ IsPartial(op.query)
  /\ op.pagination.given
  /\ ~MixedPagination(op.pagination)
  /\ op.pagination.after # NoTriple \/ op.pagination.before # NoTriple
  /\ ret.kind = "ok"

\* C15: a cursor only tightens the scan: whether or not the cursor matches
\* the query, the triples returned with {after: cursor} or {before: cursor}
\* are a subsequence of what the query returns over its whole range without
\* a cursor, and so each of them matches the fixed fields of the query.
C15_CursorOnlyTightens ==
  QueryFromCursor
    => /\ IsSubsequence(ret.val,
                        IF op.pagination.after # NoTriple
                          THEN WholeScan(QueryTarget(op.query))
                          ELSE Reverse(WholeScan(QueryTarget(op.query))))
       /\ \A i \in DOMAIN ret.val : Matches(ret.val[i], op.query)

----------------------------------------------------------------------------
(* Claims on the bindings of search, under SpecSearch *)

\* No variable stands at two positions of the statement.
VariablesOnce(statement) ==
  Cardinality(VariablesOf(statement)) = Len(SymbolKeys(statement))

\* A search of two statements has returned a result.
SearchOfTwoReturned ==
  /\ op.name = "search"
  /\ Len(op.statements) = 2
  /\ VariablesOnce(op.statements[1])
  /\ VariablesOnce(op.statements[2])
  /\ ret.kind = "ok"

\* The bindings after the first statement alone.
BoundByFirst == search(store, SubSeq(op.statements, 1, 1)).val

\* C16: a statement none of whose variables has been bound by an earlier
\* statement keeps all of its query results, even when earlier statements
\* have bound other variables: each of its variables is bound to all values
\* at its position among the stored matches of the statement.
C16_UnboundStatementKeepsAll ==
  (/\ SearchOfTwoReturned
   /\ VariablesOf(op.statements[2]) \cap DOMAIN BoundByFirst = {})
    => \A name \in VariablesOf(op.statements[2]) :
         ret.val[name] = ValuesAt(op.statements[2], name,
                                  Matching(PartialOf(op.statements[2])))

\* C17: processing a statement only narrows the variables bound before it:
\* every variable bound by the first statement and referenced by the second
\* (also when the second references two bound variables) has, after the
\* second, a subset of the values it had before.
C17_StatementOnlyNarrows ==
  SearchOfTwoReturned
    => \A name \in VariablesOf(op.statements[2]) \cap DOMAIN BoundByFirst :
         ret.val[name] \subseteq BoundByFirst[name]

====
